---- MODULE Spec2Model ----
(***************************************************************************)
(* BatchProducer of rskafka (src/src/client/producer.rs): produce calls    *)
(* aggregate records under the ProducerInner mutex, linger, and flush the  *)
(* aggregator through a ProducerClient; results are fanned out to callers  *)
(* through a one-shot result slot.                                         *)
(* ControllerClient (src/src/client/controller.rs): create_topic runs its  *)
(* request inside maybe_retry; get() caches the connection to the cluster  *)
(* controller under the current_broker mutex, invalidate() clears it.      *)
(***************************************************************************)
EXTENDS Integers, Sequences, FiniteSets, TLC

\* Number of produce calls issued in a behaviour (call ids, in call order).
NumCalls == 3
\* max_batch_size of the RecordAggregator, in units of approximate size.
Capacity == 2

\* Number of closure invocations maybe_retry makes for one call before the
\* model stops following it (the default BackoffConfig has no deadline).
MaxTries == 3
\* Number of disturbances in a behaviour: exchanges with the cluster that go
\* wrong, and controller elections.
MaxFaults == 2

Calls == 1 .. NumCalls
\* The create_topic calls made concurrently on one ControllerClient.
Tasks == {1, 2}
\* The cluster: the broker that is the controller at first, and one that
\* can be elected in its place.
Brokers == {1, 2}
\* Approximate record sizes submitted: a small record, one that fills a batch
\* on its own, and one that can never fit.
Sizes == {1, Capacity, Capacity + 1}

VARIABLES
    pc,           \* position of each produce future
    data,         \* the input record of each produce call
    tag,          \* the tag returned by try_push to each call
    rx,           \* the result-slot receiver captured by each call
    result,       \* what each produce call returned
    aggregator,   \* ProducerInner.aggregator: the pending records
    result_slot,  \* ProducerInner.result_slot: the current slot
    slots,        \* every BroadcastOnce cell created so far
    lock,         \* holder of the ProducerInner mutex, 0 when free
    output,       \* records each flush handed to client.produce
    batch_sizes,  \* MockClient.batch_sizes
    error,        \* MockClient.error: whether the client fails every call
    rpcs          \* log of client.produce invocations

VARIABLES
    current_broker, \* ControllerClient.current_broker: the cached connection,
                    \* as the id of the broker it leads to, 0 for None
    cache_lock,     \* holder of the current_broker mutex, 0 when free
    task,           \* each create_topic call: its position, its locals, what
                    \* it returned and what it has done so far
    controller,     \* the broker that is the cluster controller
    topic_exists,   \* whether the cluster has the topic
    faults          \* number of disturbances so far

\* The producer, the controller client with its cluster, and what no step
\* of the producer changes.
pvars == <<pc, data, tag, rx, result, aggregator, result_slot, slots, lock,
           output, batch_sizes, error, rpcs>>
cvars == <<current_broker, cache_lock, task, controller, topic_exists,
           faults>>
rest == <<error, cvars>>
vars == <<pvars, cvars>>

----------------------------------------------------------------------------
RECURSIVE SumSizes(_)
SumSizes(recs) ==
    IF recs = <<>> THEN 0 ELSE Head(recs).size + SumSizes(Tail(recs))

RECURSIVE SumSeq(_)
SumSeq(s) == IF s = <<>> THEN 0 ELSE Head(s) + SumSeq(Tail(s))

\* Aggregator::try_push: an input the aggregator rejects is an error; the
\* RecordAggregator admits the record when the cumulative size stays within
\* the capacity, tagging it with its 0-based index.
TryPush(agg, rec) ==
    IF rec.bad
    THEN [kind |-> "Error", tag |-> 0, agg |-> agg]
    ELSE IF SumSizes(agg) + rec.size > Capacity
    THEN [kind |-> "NoCapacity", tag |-> 0, agg |-> agg]
    ELSE [kind |-> "Aggregated", tag |-> Len(agg), agg |-> Append(agg, rec)]

\* RecordAggregator::flush: hand out the records and reset the state.
AggFlush(agg) == [output |-> agg, agg |-> <<>>]

\* RecordAggregator's StatusDeaggregator: offsets[tag], a panic when the tag
\* is out of range.
Deaggregate(offsets, t) ==
    IF t + 1 \in DOMAIN offsets
    THEN [kind |-> "Ok", offset |-> offsets[t + 1], err |-> 0]
    ELSE [kind |-> "Panic", offset |-> -1, err |-> 0]

\* BroadcastOnce
EmptySlot == [fired |-> FALSE, ok |-> FALSE, status |-> <<>>, err |-> 0, gen |-> 0]
Receive(slot) == slot
Peek(cells, r) == cells[r]
Broadcast(cells, s, v) == IF cells[s].fired THEN cells ELSE [cells EXCEPT ![s] = v]

ExtractLosesError(r, t) ==
    IF r.ok THEN Deaggregate(r.status, t)
    ELSE [kind |-> "Client", offset |-> -1, err |-> 0]

ExtractIgnoresTag(r, t) ==
    IF r.ok THEN Deaggregate(r.status, 0)
    ELSE [kind |-> "Client", offset |-> -1, err |-> r.err]

\* AggregatedResult::extract
Extract(r, t) ==
    IF r.ok THEN Deaggregate(r.status, t)
    ELSE [kind |-> "Client", offset |-> -1, err |-> r.err]

TooLarge == [kind |-> "TooLarge", offset |-> -1, err |-> 0]
NoResult == [kind |-> "None", offset |-> -1, err |-> 0]
\* Error::Aggregator
AggregatorError == [kind |-> "Aggregator", offset |-> -1, err |-> 0]

\* MockClient::produce: consecutive offsets from the sum of the earlier batch
\* sizes, or the client error.
MockProduce(sizes, records, fails) ==
    IF ~fails
    THEN [ok |-> TRUE,
          offsets |-> [i \in 1 .. Len(records) |-> SumSeq(sizes) + i - 1],
          sizes |-> Append(sizes, Len(records))]
    ELSE [ok |-> FALSE, offsets |-> <<>>, sizes |-> sizes]

GuardDroppedAtAwait(p, next) == 0

GuardNeverDropped(p, next) == p

\* The MutexGuard `inner`: alive across the await inside flush, dropped when
\* the block or the function is left.
Guard(p, next) == IF next \in {"flush1", "flush2"} THEN p ELSE 0

MemTakeKeeps(cur, fresh) == cur

\* std::mem::take(&mut inner.result_slot): inner holds a fresh default slot.
MemTake(cur, fresh) == fresh

SlotFiredNever(cells, r) == FALSE

\* `if let Some(r) = result_slot.peek()` after the linger
SlotFired(cells, r) == Peek(cells, r).fired

OutputNeverEmpty(out) == FALSE

\* output.is_empty() in flush
OutputIsEmpty(out) == out = <<>>

----------------------------------------------------------------------------
\* ControllerClient
\* Error values of client::Error that create_topic can meet.
NoError == [kind |-> "None", code |-> "", context |-> ""]
Done == [kind |-> "Ok", code |-> "", context |-> ""]
ConnectionError == [kind |-> "Connection", code |-> "", context |-> ""]
RequestError(c) == [kind |-> "Request", code |-> c, context |-> ""]
InvalidResponse(msg) == [kind |-> "InvalidResponse", code |-> msg, context |-> ""]
ServerError(e, name) == [kind |-> "ServerError", code |-> e, context |-> name]

\* The name every create_topic call of the model passes.
TopicName == "topic"

\* What can go wrong with one create-topics exchange besides the broker's
\* own answer: the transport fails, the response is throttled, is malformed,
\* or carries a transient per-topic error.
Faults == {"none", "IO", "Poisoned", "Protocol", "Throttle", "NoTopic",
           "LeaderNotAvailable"}

\* The broker's answer to CreateTopics: only the controller creates topics,
\* and only once per name.
BrokerReply(b, ctl, exists) ==
    IF b # ctl THEN "NotController"
    ELSE IF exists THEN "TopicAlreadyExists"
    ELSE "NoError"

InterpretIgnoresThrottle(fault, reply) ==
    CASE fault \in {"IO", "Poisoned", "Protocol"} ->
            [kind |-> "Error", error |-> RequestError(fault)]
      [] fault = "NoTopic" ->
            [kind |-> "Error", error |-> InvalidResponse("exactly one topic")]
      [] fault = "LeaderNotAvailable" ->
            [kind |-> "Error", error |-> ServerError(fault, TopicName)]
      [] OTHER ->
            IF reply = "NoError"
            THEN [kind |-> "Ok", error |-> NoError]
            ELSE [kind |-> "Error", error |-> ServerError(reply, TopicName)]

\* The closure of create_topic from the response on: maybe_throttle, then
\* exactly_one topic, then the topic's error code.
Interpret(fault, reply) ==
    CASE fault \in {"IO", "Poisoned", "Protocol"} ->
            [kind |-> "Error", error |-> RequestError(fault)]
      [] fault = "Throttle" -> [kind |-> "Throttle", error |-> NoError]
      [] fault = "NoTopic" ->
            [kind |-> "Error", error |-> InvalidResponse("exactly one topic")]
      [] fault = "LeaderNotAvailable" ->
            [kind |-> "Error", error |-> ServerError(fault, TopicName)]
      [] OTHER ->
            IF reply = "NoError"
            THEN [kind |-> "Ok", error |-> NoError]
            ELSE [kind |-> "Error", error |-> ServerError(reply, TopicName)]

ClassifyNotControllerFatal(e) ==
    IF \/ e.kind = "Request" /\ e.code \in {"Poisoned", "IO"}
       \/ e.kind = "Connection"
    THEN "invalidate"
    ELSE "fatal"

ClassifyBrokenFatal(e) ==
    IF e.kind = "ServerError" /\ e.code = "NotController"
    THEN "invalidate"
    ELSE "fatal"

ClassifyAllRetried(e) == "invalidate"

\* The match on the error in maybe_retry: a broken connection and
\* NotController invalidate the cache and continue, anything else is fatal.
Classify(e) ==
    IF \/ e.kind = "Request" /\ e.code \in {"Poisoned", "IO"}
       \/ e.kind = "Connection"
       \/ e.kind = "ServerError" /\ e.code = "NotController"
    THEN "invalidate"
    ELSE "fatal"

TakeKeeps(cached) == cached

\* Option::take on the cached connection
Take(cached) == 0

\* `if let Some(broker) = &*current_broker` in get()
Cached(cached) == cached # 0

GetGuardDropped(t, next) == 0

GetGuardAcrossRequest(t, next) ==
    IF next \in {"metadata", "connect", "request"} THEN t ELSE 0

\* The MutexGuard `current_broker` of get(): alive across the metadata
\* lookup and the connect, dropped when get() returns.
GetGuard(t, next) == IF next \in {"metadata", "connect"} THEN t ELSE 0

AfterRefreshPropagates(ok) == IF ok THEN Done ELSE ConnectionError

\* `let _ = self.brokers.refresh_metadata().await; Ok(())`
AfterRefresh(ok) == Done

NewTask ==
    [step |-> "idle", broker |-> 0, controller_id |-> 0, failure |-> NoError,
     returned |-> NoError, tries |-> 0, attempts |-> <<>>, invalidated |-> 0,
     lookups |-> 0, connects |-> 0, backoff |-> 0, throttled |-> 0,
     refreshed |-> 0, refresh_failed |-> FALSE]

\* ControllerClient::new, on a cluster whose controller is broker 1 and
\* that does not have the topic.
CtlNew ==
    /\ current_broker = 0
    /\ cache_lock = 0
    /\ task = [t \in Tasks |-> NewTask]
    /\ controller = 1
    /\ topic_exists = FALSE
    /\ faults = 0

----------------------------------------------------------------------------
Init ==
    /\ pc = [p \in Calls |-> "idle"]
    /\ data = [p \in Calls |-> [id |-> p, size |-> 0, bad |-> FALSE]]
    /\ tag = [p \in Calls |-> 0]
    /\ rx = [p \in Calls |-> 0]
    /\ result = [p \in Calls |-> NoResult]
    /\ aggregator = <<>>
    /\ result_slot = 1
    /\ slots = <<EmptySlot>>
    /\ lock = 0
    /\ output = [p \in Calls |-> <<>>]
    /\ batch_sizes = <<>>
    /\ error \in BOOLEAN
    /\ rpcs = <<>>
    /\ CtlNew

PushErrorPoisonsBatch(p, rec, agg, cur) ==
    LET r == TryPush(agg, rec) IN
    IF r.kind = "Aggregated"
    THEN /\ aggregator' = r.agg
         /\ tag' = [tag EXCEPT ![p] = r.tag]
         /\ rx' = [rx EXCEPT ![p] = Receive(cur)]
         /\ pc' = [pc EXCEPT ![p] = "select"]
         /\ lock' = Guard(p, "select")
         /\ result' = result
    ELSE /\ aggregator' = IF r.kind = "Error" THEN <<>> ELSE agg
         /\ pc' = [pc EXCEPT ![p] = "done"]
         /\ result' = [result EXCEPT ![p] =
                          IF r.kind = "Error" THEN AggregatorError ELSE TooLarge]
         /\ lock' = Guard(p, "done")
         /\ UNCHANGED <<tag, rx>>

\* try_push of the input `rec` into `agg`, capture of (receiver, tag) from
\* the slot `cur`, and release of the lock; Error::Aggregator when try_push
\* fails, TooLarge when the input does not fit.
PushOrTooLarge(p, rec, agg, cur) ==
    LET r == TryPush(agg, rec) IN
    IF r.kind = "Aggregated"
    THEN /\ aggregator' = r.agg
         /\ tag' = [tag EXCEPT ![p] = r.tag]
         /\ rx' = [rx EXCEPT ![p] = Receive(cur)]
         /\ pc' = [pc EXCEPT ![p] = "select"]
         /\ lock' = Guard(p, "select")
         /\ result' = result
    ELSE /\ aggregator' = agg
         /\ pc' = [pc EXCEPT ![p] = "done"]
         /\ result' = [result EXCEPT ![p] =
                          IF r.kind = "Error" THEN AggregatorError ELSE TooLarge]
         /\ lock' = Guard(p, "done")
         /\ UNCHANGED <<tag, rx>>

StartRpcTakesSlot(p, f, next, why) ==
    /\ aggregator' = f.agg
    /\ output' = [output EXCEPT ![p] = f.output]
    /\ rpcs' = Append(rpcs, [records |-> f.output, by |-> p, trigger |-> why,
                             state |-> "pending", offsets |-> <<>>])
    /\ pc' = [pc EXCEPT ![p] = next]
    /\ lock' = Guard(p, next)
    /\ result_slot' = Len(slots) + 1
    /\ slots' = Append(slots, EmptySlot)
    /\ UNCHANGED <<tag, rx, result, batch_sizes, rest>>

\* The part of flush up to the await on client.produce, for a non-empty
\* output.
StartRpc(p, f, next, why) ==
    /\ aggregator' = f.agg
    /\ output' = [output EXCEPT ![p] = f.output]
    /\ rpcs' = Append(rpcs, [records |-> f.output, by |-> p, trigger |-> why,
                             state |-> "pending", offsets |-> <<>>])
    /\ pc' = [pc EXCEPT ![p] = next]
    /\ lock' = Guard(p, next)
    /\ UNCHANGED <<tag, rx, result, result_slot, slots, batch_sizes, rest>>

FirstPushOverflows(p, rec) ==
    /\ aggregator' = Append(aggregator, rec)
    /\ tag' = [tag EXCEPT ![p] = Len(aggregator)]
    /\ rx' = [rx EXCEPT ![p] = Receive(result_slot)]
    /\ pc' = [pc EXCEPT ![p] = "select"]
    /\ UNCHANGED <<result, result_slot, slots, lock, output, batch_sizes,
                   rest, rpcs>>

FirstPushRejectsUnflushed(p, rec) ==
    IF \/ TryPush(aggregator, rec).kind \in {"Aggregated", "Error"}
       \/ TryPush(<<>>, rec).kind = "NoCapacity"
    THEN /\ PushOrTooLarge(p, rec, aggregator, result_slot)
         /\ UNCHANGED <<result_slot, slots, output, batch_sizes, rest, rpcs>>
    ELSE LET f == AggFlush(aggregator) IN
         IF OutputIsEmpty(f.output)
         THEN /\ PushOrTooLarge(p, rec, f.agg, result_slot)
              /\ UNCHANGED <<result_slot, slots, output, batch_sizes, rest, rpcs>>
         ELSE StartRpc(p, f, "flush1", "capacity")

\* The first lock hold of produce: try_push; on NoCapacity flush, and, when
\* nothing was pending, try again at once.
FirstPush(p, rec) ==
    IF TryPush(aggregator, rec).kind \in {"Aggregated", "Error"}
    THEN /\ PushOrTooLarge(p, rec, aggregator, result_slot)
         /\ UNCHANGED <<result_slot, slots, output, batch_sizes, rest, rpcs>>
    ELSE LET f == AggFlush(aggregator) IN
         IF OutputIsEmpty(f.output)
         THEN /\ PushOrTooLarge(p, rec, f.agg, result_slot)
              /\ UNCHANGED <<result_slot, slots, output, batch_sizes, rest, rpcs>>
         ELSE StartRpc(p, f, "flush1", "capacity")

\* produce(rec) is called and polled: with the mutex free the lock is taken
\* at once, otherwise the future waits for it.
Call(p, rec) ==
    /\ data' = [data EXCEPT ![p] = rec]
    /\ IF lock = 0
       THEN FirstPush(p, rec)
       ELSE /\ pc' = [pc EXCEPT ![p] = "lock1"]
            /\ UNCHANGED <<tag, rx, result, aggregator, result_slot, slots,
                           lock, output, batch_sizes, rest, rpcs>>

\* The next produce call is made, with a record of approximate size s.
Produce(p, s) ==
    /\ pc[p] = "idle"
    /\ \A q \in Calls : q < p => pc[q] # "idle"
    /\ Call(p, [id |-> p, size |-> s, bad |-> FALSE])

\* A waiting produce future acquires the released lock.
LockAcquired(p) ==
    /\ pc[p] = "lock1"
    /\ lock = 0
    /\ FirstPush(p, data[p])
    /\ UNCHANGED data

\* The part of flush after client.produce returned: reset the result slot
\* and broadcast the result on the old one.
FinishRpc(p) ==
    LET r == MockProduce(batch_sizes, output[p], error)
        n == CHOOSE i \in DOMAIN rpcs : rpcs[i].by = p /\ rpcs[i].state = "pending"
        fresh == Len(slots) + 1
        v == [fired |-> TRUE, ok |-> r.ok, status |-> r.offsets,
              err |-> IF r.ok THEN 0 ELSE n, gen |-> n]
    IN /\ batch_sizes' = r.sizes
       /\ rpcs' = [rpcs EXCEPT ![n].state = IF r.ok THEN "ok" ELSE "err",
                               ![n].offsets = r.offsets]
       /\ result_slot' = MemTake(result_slot, fresh)
       /\ slots' = Broadcast(Append(slots, EmptySlot), result_slot, v)
       /\ output' = [output EXCEPT ![p] = <<>>]

\* client.produce returns to the flush of a caller that saw NoCapacity.
FlushReturnCapacity(p) ==
    /\ pc[p] = "flush1"
    /\ FinishRpc(p)
    /\ PushOrTooLarge(p, data[p], aggregator, result_slot')
    /\ UNCHANGED <<data, rest>>

\* The slot wins the race against the linger timer.
SlotWins(p) ==
    /\ pc[p] = "select"
    /\ slots[rx[p]].fired
    /\ pc' = [pc EXCEPT ![p] = "done"]
    /\ result' = [result EXCEPT ![p] = Extract(slots[rx[p]], tag[p])]
    /\ UNCHANGED <<data, tag, rx, aggregator, result_slot, slots, lock,
                   output, batch_sizes, rest, rpcs>>

\* The linger timer wins the race.
LingerExpires(p) ==
    /\ pc[p] = "select"
    /\ pc' = [pc EXCEPT ![p] = "lock2"]
    /\ UNCHANGED <<data, tag, rx, result, aggregator, result_slot, slots,
                   lock, output, batch_sizes, rest, rpcs>>

\* Lock re-acquired after the linger: the slot has been fired meanwhile.
LingerPeekFired(p) ==
    /\ pc[p] = "lock2"
    /\ lock = 0
    /\ SlotFired(slots, rx[p])
    /\ pc' = [pc EXCEPT ![p] = "done"]
    /\ result' = [result EXCEPT ![p] = Extract(Peek(slots, rx[p]), tag[p])]
    /\ lock' = Guard(p, "done")
    /\ UNCHANGED <<data, tag, rx, aggregator, result_slot, slots, output,
                   batch_sizes, rest, rpcs>>

\* Lock re-acquired after the linger, slot unfired: flush.
LingerFlush(p) ==
    /\ pc[p] = "lock2"
    /\ lock = 0
    /\ ~SlotFired(slots, rx[p])
    /\ LET f == AggFlush(aggregator) IN
       IF OutputIsEmpty(f.output)
       THEN \* flush returns without firing: expect("just flushed") panics
            /\ pc' = [pc EXCEPT ![p] = "panicked"]
            /\ aggregator' = f.agg
            /\ lock' = Guard(p, "panicked")
            /\ UNCHANGED <<data, tag, rx, result, result_slot, slots, output,
                           batch_sizes, rest, rpcs>>
       ELSE StartRpc(p, f, "flush2", "linger") /\ UNCHANGED data

\* client.produce returns to the flush of a lingering caller.
FlushReturnLinger(p) ==
    /\ pc[p] = "flush2"
    /\ FinishRpc(p)
    /\ IF slots'[rx[p]].fired
       THEN /\ pc' = [pc EXCEPT ![p] = "done"]
            /\ result' = [result EXCEPT ![p] = Extract(slots'[rx[p]], tag[p])]
       ELSE /\ pc' = [pc EXCEPT ![p] = "panicked"]
            /\ result' = result
    /\ lock' = Guard(p, "done")
    /\ UNCHANGED <<data, tag, rx, aggregator, rest>>

Next ==
    \/ \E p \in Calls, s \in Sizes : Produce(p, s)
    \/ \E p \in Calls : LockAcquired(p)
    \/ \E p \in Calls : FlushReturnCapacity(p)
    \/ \E p \in Calls : SlotWins(p)
    \/ \E p \in Calls : LingerExpires(p)
    \/ \E p \in Calls : LingerPeekFired(p)
    \/ \E p \in Calls : LingerFlush(p)
    \/ \E p \in Calls : FlushReturnLinger(p)

Spec == Init /\ [][Next]_vars

\* A step of a produce call that has been started.
Progress ==
    \E p \in Calls :
        \/ LockAcquired(p)
        \/ FlushReturnCapacity(p)
        \/ SlotWins(p)
        \/ LingerExpires(p)
        \/ LingerPeekFired(p)
        \/ LingerFlush(p)
        \/ FlushReturnLinger(p)

\* Fairness: the runtime does not stop while a started call can take a step
\* (a client.produce call returns, a free lock is acquired by a waiter, a
\* linger timer fires, a ready future is polled).
Fairness == WF_vars(Progress)

LiveSpec == Init /\ [][Next]_vars /\ Fairness

----------------------------------------------------------------------------
\* The producer over an aggregator whose try_push can fail.

\* The next produce call is made, with an input the aggregator rejects.
ProduceRejected(p) ==
    /\ pc[p] = "idle"
    /\ \A q \in Calls : q < p => pc[q] # "idle"
    /\ Call(p, [id |-> p, size |-> 1, bad |-> TRUE])

AggNext ==
    \/ \E p \in Calls, s \in Sizes : Produce(p, s)
    \/ \E p \in Calls : ProduceRejected(p)
    \/ \E p \in Calls : LockAcquired(p)
    \/ \E p \in Calls : FlushReturnCapacity(p)
    \/ \E p \in Calls : SlotWins(p)
    \/ \E p \in Calls : LingerExpires(p)
    \/ \E p \in Calls : LingerPeekFired(p)
    \/ \E p \in Calls : LingerFlush(p)
    \/ \E p \in Calls : FlushReturnLinger(p)

AggSpec == Init /\ [][AggNext]_vars

----------------------------------------------------------------------------
\* The producer with produce futures that are dropped before they complete.

DropDiscardsRecord(p) ==
    /\ pc[p] \in {"lock1", "select", "lock2", "flush1", "flush2"}
    /\ pc' = [pc EXCEPT ![p] = "dropped"]
    /\ aggregator' = SelectSeq(aggregator, LAMBDA r : r.id # p)
    /\ UNCHANGED <<data, tag, rx, result, result_slot, slots, lock, output,
                   batch_sizes, rest, rpcs>>

\* The produce future of call p is dropped at one of its await points: its
\* locals go (the receiver, the tag, a held MutexGuard, an in-flight
\* client.produce future); ProducerInner is left as it is.
Drop(p) ==
    /\ pc[p] \in {"lock1", "select", "lock2", "flush1", "flush2"}
    /\ pc' = [pc EXCEPT ![p] = "dropped"]
    /\ lock' = IF lock = p THEN Guard(p, "dropped") ELSE lock
    /\ output' = [output EXCEPT ![p] = <<>>]
    /\ rpcs' = [n \in DOMAIN rpcs |->
                  IF rpcs[n].by = p /\ rpcs[n].state = "pending"
                  THEN [rpcs[n] EXCEPT !.state = "cancelled"]
                  ELSE rpcs[n]]
    /\ UNCHANGED <<data, tag, rx, result, aggregator, result_slot, slots,
                   batch_sizes, rest>>

DropNext ==
    \/ \E p \in Calls, s \in Sizes : Produce(p, s)
    \/ \E p \in Calls : LockAcquired(p)
    \/ \E p \in Calls : FlushReturnCapacity(p)
    \/ \E p \in Calls : SlotWins(p)
    \/ \E p \in Calls : LingerExpires(p)
    \/ \E p \in Calls : LingerPeekFired(p)
    \/ \E p \in Calls : LingerFlush(p)
    \/ \E p \in Calls : FlushReturnLinger(p)
    \/ \E p \in Calls : Drop(p)

DropSpec == Init /\ [][DropNext]_vars

----------------------------------------------------------------------------
\* create_topic calls on the ControllerClient.

\* Something goes wrong only while the behaviour has disturbances left.
Inject(wrong) ==
    IF wrong
    THEN faults < MaxFaults /\ faults' = faults + 1
    ELSE faults' = faults

\* The outcome of one closure invocation that ended in Err(Error(e)), as
\* maybe_retry handles it: fatal errors break out, the others go on to
\* invalidate the cache.
Failed(t, tk, e) ==
    LET c == Classify(e) IN
    task' = [task EXCEPT ![t] =
                IF c = "fatal"
                THEN [tk EXCEPT !.step = "done", !.returned = e]
                ELSE [tk EXCEPT !.step = "invalidate", !.failure = e]]

\* get() with the cache mutex: a cached connection is returned at once and
\* the request is sent on it; with an empty cache the metadata lookup starts
\* under the lock.
GetLocked(t, tk) ==
    IF Cached(current_broker)
    THEN /\ task' = [task EXCEPT ![t] = [tk EXCEPT !.step = "request",
                                                  !.broker = current_broker]]
         /\ cache_lock' = GetGuard(t, "request")
    ELSE /\ task' = [task EXCEPT ![t] = [tk EXCEPT !.step = "metadata",
                                                  !.lookups = @ + 1]]
         /\ cache_lock' = GetGuard(t, "metadata")

\* maybe_retry invokes the closure, which calls get(): with the cache mutex
\* free it is taken at once, otherwise the call waits for it.
Invoke(t) ==
    LET tk == [task[t] EXCEPT !.tries = @ + 1] IN
    /\ IF cache_lock = 0
       THEN GetLocked(t, tk)
       ELSE /\ task' = [task EXCEPT ![t] = [tk EXCEPT !.step = "get"]]
            /\ cache_lock' = cache_lock
    /\ UNCHANGED <<current_broker, controller, topic_exists, faults>>
    /\ UNCHANGED pvars

\* The next create_topic call is made.
CreateTopic(t) ==
    /\ task[t].step = "idle"
    /\ \A u \in Tasks : u < t => task[u].step # "idle"
    /\ Invoke(t)

\* A get() that waited acquires the released cache mutex.
Get(t) ==
    /\ task[t].step = "get"
    /\ cache_lock = 0
    /\ GetLocked(t, task[t])
    /\ UNCHANGED <<current_broker, controller, topic_exists, faults>>
    /\ UNCHANGED pvars

\* request_metadata returns to get_controller_id: the controller id, an
\* error of the connection, or metadata without a controller.
MetadataReturns(t, r) ==
    /\ task[t].step = "metadata"
    /\ Inject(r # "ok")
    /\ CASE r = "ok" ->
              /\ task' = [task EXCEPT ![t].step = "connect",
                                      ![t].controller_id = controller,
                                      ![t].connects = @ + 1]
              /\ cache_lock' = IF cache_lock = t THEN GetGuard(t, "connect")
                               ELSE cache_lock
         [] r = "error" ->
              /\ Failed(t, task[t], ConnectionError)
              /\ cache_lock' = IF cache_lock = t THEN 0 ELSE cache_lock
         [] OTHER ->
              /\ Failed(t, task[t], InvalidResponse("Leader is NULL"))
              /\ cache_lock' = IF cache_lock = t THEN 0 ELSE cache_lock
    /\ UNCHANGED <<current_broker, controller, topic_exists>>
    /\ UNCHANGED pvars

\* brokers.connect(controller_id) returns to get(): the connection is
\* cached and returned and the request is sent on it, or get() fails.
ConnectReturns(t, r) ==
    /\ task[t].step = "connect"
    /\ Inject(r # "ok")
    /\ CASE r = "ok" ->
              /\ task' = [task EXCEPT ![t].step = "request",
                                      ![t].broker = task[t].controller_id,
                                      ![t].controller_id = 0]
              /\ current_broker' = task[t].controller_id
         [] r = "error" ->
              /\ Failed(t, [task[t] EXCEPT !.controller_id = 0], ConnectionError)
              /\ current_broker' = current_broker
         [] OTHER ->
              /\ Failed(t, [task[t] EXCEPT !.controller_id = 0],
                        InvalidResponse("Controller not found"))
              /\ current_broker' = current_broker
    /\ cache_lock' = IF cache_lock = t THEN 0 ELSE cache_lock
    /\ UNCHANGED <<controller, topic_exists>>
    /\ UNCHANGED pvars

\* broker.request(request) returns to the closure.
RequestReturns(t, fault) ==
    /\ task[t].step = "request"
    /\ Inject(fault # "none")
    /\ LET reply == BrokerReply(task[t].broker, controller, topic_exists)
           r == Interpret(fault, reply)
           tk == [task[t] EXCEPT !.broker = 0, !.attempts =
                      Append(@, [to |-> task[t].broker,
                                 got |-> IF fault = "none" THEN reply ELSE fault])]
       IN /\ topic_exists' = (topic_exists \/ (fault = "none" /\ reply = "NoError"))
          /\ CASE r.kind = "Ok" ->
                    task' = [task EXCEPT ![t] =
                                [tk EXCEPT !.step = "refresh", !.refreshed = @ + 1]]
               [] r.kind = "Throttle" ->
                    task' = [task EXCEPT ![t] =
                                [tk EXCEPT !.step = "throttled", !.throttled = @ + 1]]
               [] OTHER -> Failed(t, tk, r.error)
    /\ UNCHANGED <<current_broker, cache_lock, controller>>
    /\ UNCHANGED pvars

\* invalidate() has the cache mutex: the cache is cleared and maybe_retry
\* continues with the error, which advances the backoff.
Invalidate(t) ==
    /\ task[t].step = "invalidate"
    /\ cache_lock = 0
    /\ current_broker' = Take(current_broker)
    /\ task' = [task EXCEPT ![t].step = "backoff", ![t].failure = NoError,
                            ![t].invalidated = @ + 1, ![t].backoff = @ + 1]
    /\ UNCHANGED <<cache_lock, controller, topic_exists, faults>>
    /\ UNCHANGED pvars

\* The sleep of retry_with_backoff is over: the closure is invoked again.
Retry(t) ==
    /\ task[t].step \in {"backoff", "throttled"}
    /\ task[t].tries < MaxTries
    /\ Invoke(t)

\* refresh_metadata returns, its result is ignored: create_topic returns
\* Ok(()).
RefreshReturns(t, ok) ==
    /\ task[t].step = "refresh"
    /\ Inject(~ok)
    /\ task' = [task EXCEPT ![t].step = "done",
                            ![t].returned = AfterRefresh(ok),
                            ![t].refresh_failed = ~ok]
    /\ UNCHANGED <<current_broker, cache_lock, controller, topic_exists>>
    /\ UNCHANGED pvars

\* The cluster elects another broker as its controller.
Elect(b) ==
    /\ b # controller
    /\ Inject(TRUE)
    /\ controller' = b
    /\ UNCHANGED <<current_broker, cache_lock, task, topic_exists>>
    /\ UNCHANGED pvars

CtlNext ==
    \/ \E t \in Tasks : CreateTopic(t)
    \/ \E t \in Tasks : Get(t)
    \/ \E t \in Tasks, r \in {"ok", "error", "null"} : MetadataReturns(t, r)
    \/ \E t \in Tasks, r \in {"ok", "error", "null"} : ConnectReturns(t, r)
    \/ \E t \in Tasks, f \in Faults : RequestReturns(t, f)
    \/ \E t \in Tasks : Invalidate(t)
    \/ \E t \in Tasks : Retry(t)
    \/ \E t \in Tasks, ok \in BOOLEAN : RefreshReturns(t, ok)
    \/ \E b \in Brokers : Elect(b)

CtlInit == Init /\ ~error

CtlSpec == CtlInit /\ [][CtlNext]_vars

----------------------------------------------------------------------------
\* Vocabulary of the properties

Flushing(p) == pc[p] \in {"flush1", "flush2"}
Returned(p) == pc[p] = "done"
\* the call's record was admitted by try_push
Admitted(p) == pc[p] \in {"select", "lock2", "flush2"}
                 \/ (pc[p] = "done" /\ result[p].kind \notin {"TooLarge", "Aggregator"})
Ids(recs) == {recs[i].id : i \in DOMAIN recs}
\* the client.produce invocations that carried the record of call p
Carriers(p) == {n \in DOMAIN rpcs : p \in Ids(rpcs[n].records)}
LastRpc(log) == log[Len(log)]
OkResult(o) == [kind |-> "Ok", offset |-> o, err |-> 0]

\* the create-topics request of call t is answered in this step, with `got`
Answered(t, got) ==
    /\ Len(task'[t].attempts) = Len(task[t].attempts) + 1
    /\ LastRpc(task'[t].attempts).got = got
\* get() of call t fails in this step with the error e
GetFailed(t, e) ==
    /\ task[t].step \in {"metadata", "connect"}
    /\ task'[t].step \in {"invalidate", "done"}
    /\ e = IF task'[t].step = "done" THEN task'[t].returned ELSE task'[t].failure
\* the cache is invalidated by call t in this step
Invalidates(t) == task'[t].invalidated = task[t].invalidated + 1
\* call t does no I/O and returns nothing in this step
Quiet(t) ==
    /\ task'[t].attempts = task[t].attempts
    /\ task'[t].lookups = task[t].lookups
    /\ task'[t].connects = task[t].connects
    /\ task'[t].refreshed = task[t].refreshed
    /\ task'[t].returned = task[t].returned
RECURSIVE Total(_, _)
Total(field, ts) ==
    IF ts = {} THEN 0
    ELSE LET t == CHOOSE x \in ts : TRUE
         IN task[t][field] + Total(field, ts \ {t})

----------------------------------------------------------------------------
\* C1: capacity-bound flush.  When a call's try_push reports NoCapacity while
\* records are pending, that call issues one client.produce carrying exactly
\* the records admitted so far (the new input is not among them and is not yet
\* in the aggregator); when the RPC has returned the input is admitted as the
\* first record (tag 0) of the next batch, bound to the fresh slot, and no
\* second RPC was issued for the flush (an input larger than the whole
\* capacity is never admitted: its call returns TooLarge and the next batch
\* stays empty).  With equal records, an aggregator sized for K of
\* them and K + 1 calls submitted before any linger flush (K = 2: three
\* calls), the client sees the batch sizes [K, 1] and the callers get the
\* offsets 0 .. K.
C1_NoCapacityStep ==
    \A p \in Calls :
        /\ ( /\ pc[p] \in {"idle", "lock1"}
             /\ pc'[p] \notin {"idle", "lock1"}
             /\ SumSizes(aggregator) + data'[p].size > Capacity
             /\ aggregator # <<>> )
           => /\ Len(rpcs') = Len(rpcs) + 1
              /\ LastRpc(rpcs').records = aggregator
              /\ LastRpc(rpcs').by = p
              /\ p \notin Ids(LastRpc(rpcs').records)
              /\ aggregator' = <<>>
              /\ pc'[p] = "flush1"
        /\ (pc[p] = "flush1" /\ pc'[p] # "flush1")
           => /\ Len(rpcs') = Len(rpcs)
              /\ IF data[p].size <= Capacity
                 THEN /\ pc'[p] = "select"
                      /\ aggregator' = <<data[p]>>
                      /\ tag'[p] = 0
                      /\ rx'[p] = result_slot'
                      /\ ~slots'[rx'[p]].fired
                 ELSE /\ pc'[p] = "done"
                      /\ result'[p] = TooLarge
                      /\ aggregator' = <<>>

C1_Scenario ==
    \A k \in 1 .. NumCalls - 1 :
        ( /\ ~error
          /\ \A p \in Calls : IF p <= k + 1 THEN Returned(p) ELSE pc[p] = "idle"
          /\ \E s \in Sizes : /\ \A p \in 1 .. k + 1 : data[p].size = s
                              /\ k * s <= Capacity
                              /\ (k + 1) * s > Capacity
          /\ rpcs[1].trigger = "capacity" )
        => /\ batch_sizes = <<k, 1>>
           /\ {result[p] : p \in 1 .. k + 1} = {OkResult(o) : o \in 0 .. k}

C1_CapacityBoundFlush == [][C1_NoCapacityStep]_vars /\ []C1_Scenario

\* Three equal records, capacity for two: batches [2, 1], offsets 0, 1, 2.
C1_Witness ==
    /\ NumCalls >= 3
    /\ \A p \in 1 .. 3 : Returned(p) /\ data[p].size = data[1].size
    /\ batch_sizes = <<2, 1>>
    /\ rpcs[1].trigger = "capacity"
    /\ {result[p] : p \in 1 .. 3} = {OkResult(0), OkResult(1), OkResult(2)}

\* C2: a call that returns Ok returns offsets[tag] of the client.produce call
\* that carried its record, which is the base offset of that batch plus the
\* 0-based position at which the record was admitted; within one batch the
\* offsets are ordered as the tags.
C2_OffsetIsBasePlusTag ==
    /\ \A p \in Calls :
        (Returned(p) /\ result[p].kind = "Ok")
        => \E n \in DOMAIN rpcs :
              /\ rpcs[n].state = "ok"
              /\ tag[p] + 1 \in DOMAIN rpcs[n].records
              /\ rpcs[n].records[tag[p] + 1].id = p
              /\ result[p].offset = rpcs[n].offsets[tag[p] + 1]
              /\ result[p].offset = rpcs[n].offsets[1] + tag[p]
    /\ \A p, q \in Calls :
        ( /\ Returned(p) /\ Returned(q)
          /\ result[p].kind = "Ok" /\ result[q].kind = "Ok"
          /\ Carriers(p) = Carriers(q)
          /\ tag[p] < tag[q] )
        => result[p].offset < result[q].offset

\* Two callers of the second batch have both returned their offsets.
C2_Witness ==
    \E p, q \in Calls :
        /\ Returned(p) /\ Returned(q)
        /\ result[p].kind = "Ok" /\ result[q].kind = "Ok"
        /\ Carriers(p) = {2} /\ Carriers(q) = {2}
        /\ tag[p] = 0 /\ tag[q] = 1
        /\ result[p].offset > 0

\* C3: error fan-out.  When client.produce failed for a batch, every call
\* whose record was in the batch and that has returned got Error::Client with
\* the one error of that invocation (none returns Ok), and the records of
\* the batch were passed to client.produce exactly once.
C3_ErrorFanOut ==
    \A n \in DOMAIN rpcs :
        rpcs[n].state = "err"
        => \A p \in Ids(rpcs[n].records) :
              /\ Returned(p) => result[p] = [kind |-> "Client", offset |-> -1, err |-> n]
              /\ Carriers(p) = {n}

\* Both callers of a failed batch of two have returned.
C3_Witness ==
    \E n \in DOMAIN rpcs :
        /\ rpcs[n].state = "err"
        /\ Len(rpcs[n].records) = 2
        /\ \A p \in Ids(rpcs[n].records) : Returned(p) /\ result[p].kind = "Client"

\* C4: flush triggers.  client.produce is invoked only by a call that holds
\* the lock and either (a) is at its first try_push, which reports
\* NoCapacity, or (b) has seen its linger expire and finds its captured slot
\* unfired.  Hence a single fitting record with no other traffic is not
\* dispatched before its linger expired, and is then dispatched as one batch
\* of one record, its caller receiving offset 0.
C4_TriggerStep ==
    Len(rpcs') # Len(rpcs)
    => /\ Len(rpcs') = Len(rpcs) + 1
       /\ LET p == LastRpc(rpcs').by IN
            /\ lock = 0 /\ lock' = p
            /\ \/ /\ pc[p] \in {"idle", "lock1"}
                  /\ SumSizes(aggregator) + data'[p].size > Capacity
                  /\ LastRpc(rpcs').trigger = "capacity"
               \/ /\ pc[p] = "lock2"
                  /\ ~slots[rx[p]].fired
                  /\ LastRpc(rpcs').trigger = "linger"

C4_SingleRecord ==
    ( /\ \A q \in Calls : q # 1 => pc[q] = "idle"
      /\ data[1].size <= Capacity )
    => /\ pc[1] \in {"idle", "lock1", "select"} => rpcs = <<>>
       /\ Returned(1) => /\ Len(rpcs) = 1
                         /\ rpcs[1].records = <<data[1]>>
                         /\ rpcs[1].trigger = "linger"
                         /\ ~error => result[1] = OkResult(0)

C4_FlushTriggers == [][C4_TriggerStep]_vars /\ []C4_SingleRecord

\* The single record has been dispatched by its own linger flush.
C4_Witness ==
    /\ \A q \in Calls : q # 1 => pc[q] = "idle"
    /\ Returned(1)
    /\ result[1] = OkResult(0)
    /\ rpcs[1].trigger = "linger"

\* C5: termination of produce.  A call that was started stays started until
\* it returns, and under the fairness of LiveSpec (client calls return, a free
\* lock is acquired, linger timers fire) the producer reaches and keeps a
\* state in which the inner mutex is free and every started call has
\* returned: no call waits forever on its slot or on the lock.
C5_Quiescent ==
    /\ lock = 0
    /\ \A p \in Calls : pc[p] \in {"idle", "done"}

C5_StaysStarted ==
    \A p \in Calls : pc[p] # "idle" => pc'[p] # "idle"

C5_ProduceTerminates == [][C5_StaysStarted]_vars /\ <>[]C5_Quiescent

\* Every call has returned, after a capacity flush and a linger flush.
C5_Witness ==
    /\ \A p \in Calls : Returned(p)
    /\ \E n \in DOMAIN rpcs : rpcs[n].trigger = "capacity"
    /\ \E n \in DOMAIN rpcs : rpcs[n].trigger = "linger"

\* C6: batch size bound.  The approximate sizes of the records passed to one
\* client.produce call sum to at most the aggregator capacity, and so do the
\* sizes of the pending records: an input that does not fit is admitted only
\* after the flush.
C6_BatchSizeBound ==
    /\ \A n \in DOMAIN rpcs : SumSizes(rpcs[n].records) <= Capacity
    /\ \A p \in Calls : SumSizes(output[p]) <= Capacity
    /\ SumSizes(aggregator) <= Capacity

\* A full batch was flushed by a call whose input did not fit, and that input
\* is now pending alone.
C6_Witness ==
    \E n \in DOMAIN rpcs :
        /\ rpcs[n].trigger = "capacity"
        /\ rpcs[n].state # "pending"
        /\ Len(rpcs[n].records) >= 2
        /\ SumSizes(rpcs[n].records) = Capacity
        /\ aggregator = <<data[rpcs[n].by]>>

\* C7 as claimed: while a client.produce call is in flight the inner mutex is
\* not held.
C7_RpcOutsideLock == \A p \in Calls : Flushing(p) => lock = 0

\* C7 as the code has it: while a client.produce call is in flight the inner
\* mutex is held by the flushing call, the aggregator stays empty, and no
\* step admits an input, captures a receiver or touches the slots until the
\* RPC has returned.
C7_InFlightState ==
    \A p \in Calls : Flushing(p) => lock = p /\ aggregator = <<>>

C7_InFlightStep ==
    (\E p \in Calls : Flushing(p) /\ Flushing(p)')
    => UNCHANGED <<aggregator, tag, rx, result_slot, slots, lock, rpcs>>

C7_RpcUnderLock == []C7_InFlightState /\ [][C7_InFlightStep]_vars

\* An RPC is in flight while another call with a fitting input waits for the
\* lock.
C7_Witness ==
    \E p, q \in Calls :
        /\ Flushing(p)
        /\ pc[q] = "lock1"
        /\ data[q].size <= Capacity

\* C8: at most one client.produce call of the producer is in flight.
C8_OneFlushInFlight ==
    /\ Cardinality({p \in Calls : Flushing(p)}) <= 1
    /\ Cardinality({n \in DOMAIN rpcs : rpcs[n].state = "pending"}) <= 1
    /\ Cardinality({p \in Calls : output[p] # <<>>}) <= 1

\* One flush is in flight while a second caller, whose linger expired on an
\* unfired slot, and a third, whose input will not fit, wait for the lock.
C8_Witness ==
    \E p, q, r \in Calls :
        /\ Flushing(p)
        /\ pc[q] = "lock2" /\ ~slots[rx[q]].fired
        /\ pc[r] = "lock1" /\ data[r].size = Capacity

\* C9: tag-slot pairing.  While a call's record is pending, the call holds
\* the receiver of the current, unfired slot and its tag is the record's
\* index in the aggregator; once the captured slot is fired, the result was
\* broadcast by the flush whose record list holds the record at index tag;
\* and what the call returns is extracted from that result.
C9_TagSlotPairing ==
    \A p \in Calls :
        Admitted(p) =>
            /\ rx[p] \in DOMAIN slots
            /\ (p \in Ids(aggregator))
               => /\ rx[p] = result_slot
                  /\ ~slots[rx[p]].fired
                  /\ tag[p] + 1 \in DOMAIN aggregator
                  /\ aggregator[tag[p] + 1].id = p
            /\ slots[rx[p]].fired
               => LET n == slots[rx[p]].gen IN
                    /\ n \in DOMAIN rpcs
                    /\ tag[p] + 1 \in DOMAIN rpcs[n].records
                    /\ rpcs[n].records[tag[p] + 1].id = p
                    /\ Carriers(p) = {n}
            /\ Returned(p)
               => /\ slots[rx[p]].fired
                  /\ result[p] = Extract(slots[rx[p]], tag[p])

\* A call admitted on the NoCapacity path returned the result of the batch
\* after the one it flushed.
C9_Witness ==
    \E p \in Calls, n \in DOMAIN rpcs :
        /\ rpcs[n].by = p /\ rpcs[n].trigger = "capacity"
        /\ Returned(p) /\ result[p].kind = "Ok"
        /\ slots[rx[p]].gen > n
        /\ rx[p] > 1

\* C10: too-large input on an idle producer.  A call that takes the lock
\* with nothing pending and an input larger than the capacity returns
\* TooLarge in that lock hold; client.produce is not invoked, the result
\* slot is neither replaced nor fired, the aggregator stays empty and the
\* lock is free, so the producer is left as it was found.
C10_TooLargeStep ==
    \A p \in Calls :
        ( /\ pc[p] \in {"idle", "lock1"}
          /\ pc'[p] \notin {"idle", "lock1"}
          /\ aggregator = <<>>
          /\ data'[p].size > Capacity )
        => /\ pc'[p] = "done"
           /\ result'[p] = TooLarge
           /\ aggregator' = <<>>
           /\ lock' = 0
           /\ UNCHANGED <<rpcs, output, batch_sizes, result_slot, slots>>

C10_TooLargeOnIdle == [][C10_TooLargeStep]_vars

\* The first call failed with TooLarge on the idle producer; the second, a
\* fitting record, was then flushed by its own linger and got offset 0.
C10_Witness ==
    /\ NumCalls >= 2
    /\ Returned(1) /\ result[1] = TooLarge
    /\ Returned(2) /\ result[2] = OkResult(0)
    /\ Len(rpcs) = 1
    /\ rpcs[1].trigger = "linger"
    /\ rpcs[1].records = <<data[2]>>
    /\ result_slot = 2

\* C11: aggregator error isolation.  The step in which try_push fails for a
\* call returns Error::Aggregator to that call alone and frees the lock; it
\* leaves the pending records, the current slot, every slot's content, the
\* tags and receivers, and the log of client.produce calls as they were, and
\* no other call moves.  Only calls whose input was rejected get
\* Error::Aggregator, and a call whose record was admitted returns, when the
\* client does not fail, the offset at its own tag of the batch that carried
\* its record.
C11_ErrorStep ==
    \A p \in Calls :
        ( /\ pc[p] \in {"idle", "lock1"}
          /\ pc'[p] \notin {"idle", "lock1"}
          /\ data'[p].bad )
        => /\ pc'[p] = "done"
           /\ result'[p] = AggregatorError
           /\ lock' = 0
           /\ UNCHANGED <<aggregator, result_slot, slots, tag, rx, rpcs,
                          output, batch_sizes>>
           /\ \A q \in Calls \ {p} : pc'[q] = pc[q] /\ result'[q] = result[q]

C11_OthersServed ==
    \A p \in Calls :
        /\ (Returned(p) /\ result[p].kind = "Aggregator") <=> (Returned(p) /\ data[p].bad)
        /\ data[p].bad => p \notin Ids(aggregator) /\ Carriers(p) = {}
        /\ (Returned(p) /\ ~data[p].bad /\ data[p].size <= Capacity /\ ~error)
           => \E n \in DOMAIN rpcs :
                 /\ Carriers(p) = {n}
                 /\ rpcs[n].records[tag[p] + 1].id = p
                 /\ result[p] = OkResult(rpcs[n].offsets[tag[p] + 1])

C12_NonEmptyCalls ==
    /\ \A n \in DOMAIN rpcs : rpcs[n].records # <<>>
    /\ \A p \in Calls : Flushing(p) => output[p] # <<>>

C12_EmptyFlushStep ==
    \A p \in Calls :
        ( /\ aggregator = <<>>
          /\ \/ /\ pc[p] \in {"idle", "lock1"}
                /\ pc'[p] \notin {"idle", "lock1", "dropped"}
                /\ TryPush(aggregator, data'[p]).kind = "NoCapacity"
             \/ /\ pc[p] = "lock2"
                /\ pc'[p] \notin {"lock2", "dropped"}
                /\ ~slots[rx[p]].fired )
        => /\ UNCHANGED <<rpcs, result_slot, slots, batch_sizes, output>>
           /\ aggregator' = <<>>
           /\ ~Flushing(p)'

C12_NoEmptyDispatch == []C12_NonEmptyCalls /\ [][C12_EmptyFlushStep]_vars

\* A lingering call flushed an empty aggregator: nothing was sent, its slot
\* is still the current one and unfired.
C12_Witness ==
    \E p \in Calls :
        /\ pc[p] = "panicked"
        /\ aggregator = <<>>
        /\ rx[p] = result_slot
        /\ ~slots[rx[p]].fired
        /\ \A n \in DOMAIN rpcs : rpcs[n].by # p

\* C13 as claimed: a produce future dropped after its record was admitted
\* either had its record handed to client.produce already, or its record is
\* discarded: no client.produce call made after the drop carries it.
C13_DroppedStep ==
    \A p \in Calls : pc[p] = "dropped" => Carriers(p)' = Carriers(p)

C13_DropStep ==
    \A p \in Calls :
        (pc[p] # "dropped" /\ pc'[p] = "dropped")
        => /\ UNCHANGED <<aggregator, tag, rx, result_slot, slots, batch_sizes>>
           /\ Len(rpcs') = Len(rpcs)
           /\ \A n \in DOMAIN rpcs : rpcs'[n].records = rpcs[n].records

C13_FlushTakesAll ==
    Len(rpcs') > Len(rpcs)
    => /\ LastRpc(rpcs').records = aggregator
       /\ aggregator' = <<>>

C13_PendingOrCarried ==
    \A p \in Calls :
        (pc[p] = "dropped" /\ rx[p] # 0)
        => \/ p \in Ids(aggregator) /\ Carriers(p) = {}
           \/ p \notin Ids(aggregator) /\ Cardinality(Carriers(p)) = 1

C14_SlotStep ==
    /\ \A s \in DOMAIN slots : slots[s].fired => slots'[s] = slots[s]
    /\ \A n \in DOMAIN rpcs :
          (rpcs[n].state = "pending" /\ rpcs'[n].state # "pending")
          => /\ ~slots[result_slot].fired
             /\ slots'[result_slot].fired
             /\ slots'[result_slot].gen = n
             /\ \A s \in DOMAIN slots \ {result_slot} : slots'[s] = slots[s]
             /\ result_slot' \notin DOMAIN slots
             /\ result_slot' \in DOMAIN slots'
             /\ ~slots'[result_slot'].fired
    /\ \A p \in Calls :
          rx'[p] # rx[p] => rx'[p] = result_slot' /\ ~slots'[rx'[p]].fired

C14_SameResult ==
    /\ \A n \in DOMAIN rpcs : \A p, q \in Ids(rpcs[n].records) : rx[p] = rx[q]
    /\ \A p \in Calls :
          (Returned(p) /\ Admitted(p))
          => /\ slots[rx[p]].fired
             /\ result[p] = Extract(Peek(slots, rx[p]), tag[p])
    /\ ~slots[result_slot].fired

C14_OneShotSlot == [][C14_SlotStep]_vars /\ []C14_SameResult

\* Two callers of one batch returned from the same fired slot, and a later
\* caller holds a receiver of the fresh, unfired current slot.
C14_Witness ==
    \E p, q, r \in Calls :
        /\ p # q /\ rx[p] = rx[q]
        /\ Returned(p) /\ Returned(q)
        /\ Admitted(p) /\ Admitted(q)
        /\ slots[rx[p]].fired
        /\ pc[r] = "select"
        /\ rx[r] = result_slot /\ rx[r] # rx[p]
        /\ ~slots[rx[r]].fired

\* C15: controller re-election.  A create-topics request answered with
\* NotController is not returned to the caller: the call goes on to
\* invalidate the cache.  When the first request of a call was answered
\* NotController and its second closure invocation reached a different
\* broker that accepted the request, the call has invalidated the cache
\* exactly once, advanced its backoff once, sent exactly two requests, the
\* second to the broker its lookup named, and it returns Ok(()).
C15_NotControllerStep ==
    \A t \in Tasks :
        Answered(t, "NotController")
        => /\ task'[t].step = "invalidate"
           /\ task'[t].failure = ServerError("NotController", TopicName)
           /\ task'[t].returned = NoError
           /\ UNCHANGED <<current_broker, cache_lock>>

C15_Scenario ==
    \A t \in Tasks :
        LET a == task[t].attempts IN
        ( /\ Len(a) >= 2
          /\ a[1].got = "NotController"
          /\ a[2].got = "NoError"
          /\ a[2].to # a[1].to
          /\ task[t].tries = 2 )
        => /\ Len(a) = 2
           /\ task[t].invalidated = 1
           /\ task[t].backoff = 1
           /\ task[t].step \in {"refresh", "done"}
           /\ task[t].step = "done" => task[t].returned = Done

C15_ControllerReelection == [][C15_NotControllerStep]_vars /\ []C15_Scenario

\* The first call met NotController at broker 1 after an election, looked
\* the controller up again and created the topic at broker 2.
C15_Witness ==
    /\ task[1].step = "done"
    /\ task[1].returned = Done
    /\ task[1].attempts = <<[to |-> 1, got |-> "NotController"],
                            [to |-> 2, got |-> "NoError"]>>
    /\ task[1].invalidated = 1
    /\ task[1].lookups = 2
    /\ task[2].step = "idle"
    /\ current_broker = 2

\* C16: no redundant controller lookups.  A metadata lookup or connect of
\* get() runs only under the cache mutex and only with an empty cache, so at
\* most one is in progress; a get() that finds a cached connection returns
\* that connection without a metadata request or connect.  As long as no
\* get() failed and nothing was invalidated, all calls together made at most
\* one lookup and one connect, and every call that has a connection has the
\* cached one.
C16_LookupUnderLock ==
    /\ Cardinality({t \in Tasks : task[t].step \in {"metadata", "connect"}}) <= 1
    /\ \A t \in Tasks :
          task[t].step \in {"metadata", "connect"}
          => cache_lock = t /\ current_broker = 0

C16_GetStep ==
    \A t \in Tasks :
        /\ task'[t].lookups # task[t].lookups
           => /\ current_broker = 0 /\ cache_lock = 0
              /\ cache_lock' = t
              /\ task'[t].lookups = task[t].lookups + 1
        /\ ( /\ task[t].step \in {"idle", "get", "backoff", "throttled"}
             /\ task'[t].step # task[t].step
             /\ cache_lock = 0
             /\ current_broker # 0 )
           => /\ task'[t].step = "request"
              /\ task'[t].broker = current_broker
              /\ task'[t].lookups = task[t].lookups
              /\ task'[t].connects = task[t].connects
              /\ UNCHANGED <<current_broker, cache_lock>>

C16_OneLookup ==
    (\A t \in Tasks : /\ task[t].invalidated = 0
                      /\ task[t].step # "invalidate"
                      /\ task[t].returned.kind # "InvalidResponse")
    => /\ Total("lookups", Tasks) <= 1
       /\ Total("connects", Tasks) <= 1
       /\ \A t \in Tasks : task[t].broker # 0 => task[t].broker = current_broker

C16_NoRedundantLookups ==
    /\ []C16_LookupUnderLock
    /\ [][C16_GetStep]_vars
    /\ []C16_OneLookup

\* The second call waits for the cache mutex while the first, which found
\* the cache empty, is connecting to the controller its lookup named.
C16_Witness ==
    /\ task[1].step = "connect" /\ task[2].step = "get"
    /\ cache_lock = 1
    /\ current_broker = 0
    /\ task[1].lookups = 1 /\ task[1].connects = 1
    /\ task[2].lookups = 0 /\ task[2].connects = 0

\* C17: invalidate.  An invalidate leaves the cache empty whatever it held,
\* takes and gives back the cache mutex in one step, and does no metadata
\* request, connect or create-topics request; on an empty cache it changes
\* nothing of the client.  A get() that runs on an empty cache starts a
\* fresh lookup, and only the connect of such a lookup fills the cache.
C17_InvalidateStep ==
    \A t \in Tasks :
        Invalidates(t)
        => /\ current_broker' = 0
           /\ cache_lock = 0 /\ cache_lock' = 0
           /\ \A u \in Tasks : Quiet(u)
           /\ \A u \in Tasks \ {t} : task'[u] = task[u]
           /\ UNCHANGED <<controller, topic_exists>>

C17_FreshLookupStep ==
    /\ \A t \in Tasks :
          ( /\ task[t].step \in {"idle", "get", "backoff", "throttled"}
            /\ task'[t].step # task[t].step
            /\ cache_lock = 0
            /\ current_broker = 0 )
          => /\ task'[t].step = "metadata"
             /\ task'[t].lookups = task[t].lookups + 1
    /\ (current_broker = 0 /\ current_broker' # 0)
       => \E t \in Tasks : /\ task[t].step = "connect"
                            /\ task'[t].step = "request"
                            /\ task'[t].broker = current_broker'

C17_InvalidateIdempotent ==
    [][C17_InvalidateStep]_vars /\ [][C17_FreshLookupStep]_vars

\* Both calls invalidated the cache, one after the other with no lookup in
\* between, and the first of them has started the fresh lookup.
C17_Witness ==
    /\ task[1].invalidated = 1 /\ task[2].invalidated = 1
    /\ Total("lookups", Tasks) = 2
    /\ Total("connects", Tasks) = 1
    /\ \E t \in Tasks : task[t].step = "metadata" /\ task[t].tries = 2
    /\ current_broker = 0

\* C18: broken connection.  When the closure fails with Request::Poisoned,
\* Request::IO or a Connection error the call neither returns nor retries
\* at once: it invalidates the cache, exactly once for that failure, and
\* then sleeps its backoff; the invalidate leaves the cache empty, so that
\* a call running alone re-resolves the controller on its next attempt.
C18_BrokenStep ==
    \A t \in Tasks :
        /\ ( \/ Answered(t, "IO")
             \/ Answered(t, "Poisoned")
             \/ GetFailed(t, ConnectionError) )
           => /\ task'[t].step = "invalidate"
              /\ task'[t].failure \in {RequestError("IO"), RequestError("Poisoned"),
                                        ConnectionError}
              /\ task'[t].returned = NoError
              /\ task'[t].invalidated = task[t].invalidated
              /\ task'[t].backoff = task[t].backoff
        /\ (task[t].step = "invalidate" /\ task'[t].step # "invalidate")
           => /\ task'[t].step = "backoff"
              /\ task'[t].invalidated = task[t].invalidated + 1
              /\ task'[t].backoff = task[t].backoff + 1
              /\ task'[t].tries = task[t].tries
              /\ current_broker' = 0

C18_OncePerFailure ==
    \A t \in Tasks :
        /\ task[t].invalidated = task[t].backoff
        /\ task[t].step # "idle"
           => task[t].backoff + task[t].throttled
                = task[t].tries - (IF task[t].step \in {"backoff", "throttled"}
                                   THEN 0 ELSE 1)
        /\ ( /\ \A u \in Tasks \ {t} : task[u].step = "idle"
             /\ task[t].step = "request" )
           => task[t].lookups = task[t].invalidated + 1

C18_BrokenConnection == [][C18_BrokenStep]_vars /\ []C18_OncePerFailure

\* The first request of a call failed with an I/O error; the call
\* invalidated the cache once, looked the controller up again and has its
\* second request in flight.
C18_Witness ==
    \E t \in Tasks :
        /\ task[t].attempts = <<[to |-> 1, got |-> "IO"]>>
        /\ task[t].step = "request"
        /\ task[t].tries = 2
        /\ task[t].invalidated = 1
        /\ task[t].lookups = 2
        /\ task[t].backoff = 1

\* C19 as claimed: a create-topics request answered with a transient server
\* error other than NotController makes the call continue with a backoff,
\* without invalidating the cache and without returning the error.
C19_RetriableStep ==
    \A t \in Tasks :
        Answered(t, "LeaderNotAvailable")
        => /\ task'[t].step = "backoff"
           /\ task'[t].returned = NoError
           /\ task'[t].invalidated = task[t].invalidated
           /\ current_broker' = current_broker

C19_RetriableRetried == [][C19_RetriableStep]_vars

\* C19 as the code has it: in the controller's retry envelope every server
\* error other than NotController is fatal, the transient ones included:
\* the call returns the error from that attempt, with the topic as context,
\* without invalidating the cache, without backoff and without a further
\* request.
C19_RetriableIsFatalStep ==
    \A t \in Tasks :
        Answered(t, "LeaderNotAvailable")
        => /\ task'[t].step = "done"
           /\ task'[t].returned = ServerError("LeaderNotAvailable", TopicName)
           /\ task'[t].invalidated = task[t].invalidated
           /\ task'[t].backoff = task[t].backoff
           /\ task'[t].refreshed = task[t].refreshed
           /\ UNCHANGED <<current_broker, cache_lock>>

C19_RetriableReturned ==
    \A t \in Tasks : \A i \in DOMAIN task[t].attempts :
        task[t].attempts[i].got = "LeaderNotAvailable"
        => /\ i = Len(task[t].attempts)
           /\ task[t].step = "done"
           /\ task[t].returned = ServerError("LeaderNotAvailable", TopicName)

C19_RetriableIsFatal == [][C19_RetriableIsFatalStep]_vars /\ []C19_RetriableReturned

\* A call returned the transient server error of its only request.
C19_Witness ==
    \E t \in Tasks :
        /\ task[t].step = "done"
        /\ task[t].returned = ServerError("LeaderNotAvailable", TopicName)
        /\ Len(task[t].attempts) = 1
        /\ task[t].tries = 1
        /\ task[t].invalidated = 0
        /\ current_broker # 0

\* C20: fatal errors.  When a create-topics request is answered with
\* TopicAlreadyExists, with a response that does not hold exactly one
\* topic, or fails with Request::Protocol, create_topic returns that error
\* from that attempt: no invalidate, no backoff, no refresh_metadata and no
\* further request follow.  The controller answers a create-topics request
\* for a topic that exists with TopicAlreadyExists, which the call returns
\* as a ServerError with the topic as context.
FatalError(got) ==
    CASE got = "TopicAlreadyExists" -> ServerError(got, TopicName)
      [] got = "NoTopic" -> InvalidResponse("exactly one topic")
      [] got = "Protocol" -> RequestError(got)
      [] OTHER -> NoError

C20_FatalStep ==
    \A t \in Tasks : \A got \in {"TopicAlreadyExists", "NoTopic", "Protocol"} :
        Answered(t, got)
        => /\ task'[t].step = "done"
           /\ task'[t].returned = FatalError(got)
           /\ task'[t].invalidated = task[t].invalidated
           /\ task'[t].backoff = task[t].backoff
           /\ task'[t].refreshed = task[t].refreshed
           /\ task'[t].tries = task[t].tries
           /\ UNCHANGED <<current_broker, cache_lock>>

C20_ExistingTopicStep ==
    \A t \in Tasks :
        ( /\ Len(task'[t].attempts) = Len(task[t].attempts) + 1
          /\ faults' = faults
          /\ task[t].broker = controller
          /\ topic_exists )
        => /\ task'[t].step = "done"
           /\ task'[t].returned = ServerError("TopicAlreadyExists", TopicName)

C20_FatalIsFinal ==
    \A t \in Tasks :
        /\ \A i \in DOMAIN task[t].attempts :
              task[t].attempts[i].got \in {"TopicAlreadyExists", "NoTopic", "Protocol"}
              => /\ i = Len(task[t].attempts)
                 /\ task[t].step = "done"
                 /\ task[t].returned = FatalError(task[t].attempts[i].got)
                 /\ task[t].refreshed = 0
        /\ (task[t].step = "done" /\ task[t].returned # Done)
           => task[t].refreshed = 0
        /\ \A i \in DOMAIN task[t].attempts :
              task[t].attempts[i].got = "TopicAlreadyExists" => topic_exists

C20_FatalErrors ==
    /\ [][C20_FatalStep]_vars
    /\ [][C20_ExistingTopicStep]_vars
    /\ []C20_FatalIsFinal

\* The first call created the topic; the second call, made for the same
\* topic, returned TopicAlreadyExists from its only request.
C20_Witness ==
    /\ task[1].step = "done" /\ task[1].returned = Done
    /\ task[2].step = "done"
    /\ task[2].returned = ServerError("TopicAlreadyExists", TopicName)
    /\ task[2].attempts = <<[to |-> controller, got |-> "TopicAlreadyExists"]>>
    /\ task[2].tries = 1
    /\ task[2].invalidated = 0
    /\ task[2].refreshed = 0
    /\ current_broker = controller

\* C21: throttle.  A create-topics response with a throttle time is neither
\* returned nor treated as an error: the call sleeps once for it, leaving
\* the cache, the cache mutex and its backoff schedule as they are, and
\* then invokes the closure again.  The backoff advances only with the
\* invalidating errors, so throttled responses never count in it.  With a
\* throttled first response and a clean second one the call has sent the
\* request exactly twice, slept for the throttle once, and returns Ok(()).
C21_ThrottleStep ==
    \A t \in Tasks :
        /\ Answered(t, "Throttle")
           => /\ task'[t].step = "throttled"
              /\ task'[t].throttled = task[t].throttled + 1
              /\ task'[t].backoff = task[t].backoff
              /\ task'[t].invalidated = task[t].invalidated
              /\ task'[t].returned = NoError
              /\ task'[t].tries = task[t].tries
              /\ UNCHANGED <<current_broker, cache_lock>>
        /\ (task[t].step = "throttled" /\ task'[t].step # "throttled")
           => /\ task'[t].tries = task[t].tries + 1
              /\ task'[t].throttled = task[t].throttled
              /\ task'[t].backoff = task[t].backoff
              /\ task'[t].invalidated = task[t].invalidated
              /\ current_broker' = current_broker

C21_Scenario ==
    \A t \in Tasks :
        LET a == task[t].attempts
            throttles == {i \in DOMAIN a : a[i].got = "Throttle"}
        IN /\ task[t].throttled = Cardinality(throttles)
           /\ task[t].backoff = task[t].invalidated
           /\ task[t].backoff + task[t].throttled <= task[t].tries
           /\ ( /\ Len(a) >= 2
                /\ a[1].got = "Throttle"
                /\ a[2].got = "NoError"
                /\ task[t].tries = 2 )
              => /\ Len(a) = 2
                 /\ task[t].throttled = 1
                 /\ task[t].backoff = 0
                 /\ task[t].invalidated = 0
                 /\ task[t].step \in {"refresh", "done"}
                 /\ task[t].step = "done" => task[t].returned = Done

C21_ThrottleHandling == [][C21_ThrottleStep]_vars /\ []C21_Scenario

\* A call whose first response was throttled and whose second request then
\* failed with an I/O error sleeps its first backoff: the throttle did not
\* advance the schedule.
C21_Witness ==
    \E t \in Tasks :
        /\ task[t].attempts = <<[to |-> 1, got |-> "Throttle"],
                                [to |-> 1, got |-> "IO"]>>
        /\ task[t].step = "backoff"
        /\ task[t].throttled = 1
        /\ task[t].backoff = 1
        /\ task[t].invalidated = 1

\* C22: metadata refresh.  A call invokes refresh_metadata at most once, in
\* the step in which its create-topics request is answered without error,
\* and it is inside refresh_metadata or has returned Ok(()) exactly when it
\* has invoked it: a call that returned an error never invoked it.  When
\* refresh_metadata returns, the call returns Ok(()) whether the refresh
\* succeeded or failed.
C22_RefreshStep ==
    \A t \in Tasks :
        /\ task'[t].refreshed # task[t].refreshed
           => /\ Answered(t, "NoError")
              /\ task'[t].refreshed = task[t].refreshed + 1
              /\ task'[t].step = "refresh"
              /\ task'[t].returned = NoError
        /\ Answered(t, "NoError") => task'[t].refreshed = task[t].refreshed + 1
        /\ (task[t].step = "refresh" /\ task'[t].step # "refresh")
           => /\ task'[t].step = "done"
              /\ task'[t].returned = Done
              /\ task'[t].refreshed = task[t].refreshed

C22_RefreshedOnce ==
    \A t \in Tasks :
        /\ task[t].refreshed <= 1
        /\ task[t].refreshed = 1
             <=> \/ task[t].step = "refresh"
                 \/ task[t].step = "done" /\ task[t].returned = Done
        /\ task[t].refreshed = 1
             => /\ task[t].attempts # <<>>
                /\ LastRpc(task[t].attempts).got = "NoError"
        /\ task[t].refresh_failed => task[t].step = "done" /\ task[t].returned = Done

C22_RefreshAfterCreate == [][C22_RefreshStep]_vars /\ []C22_RefreshedOnce

\* A call created the topic, its refresh_metadata failed, and it returned
\* Ok(()); the other call returned an error without a refresh.
C22_Witness ==
    \E t, u \in Tasks :
        /\ task[t].step = "done" /\ task[t].returned = Done
        /\ task[t].refresh_failed
        /\ task[t].refreshed = 1
        /\ task[u].step = "done" /\ task[u].returned.kind = "ServerError"
        /\ task[u].refreshed = 0

\* C23 as claimed: while the client.produce call of a batch is in flight,
\* the current slot is no longer the slot the callers of that batch hold.
C23_SlotTakenBeforeRpc ==
    \A p \in Calls :
        Flushing(p) => \A q \in Ids(output[p]) : rx[q] # result_slot

\* C23 as the code has it: flush awaits client.produce first and takes the
\* slot afterwards.  While the RPC is in flight the current slot is still
\* the unfired slot whose receivers the callers of the in-flight batch hold,
\* and it does not change; the step in which the RPC returns installs the
\* fresh slot and fires the old one.
C23_InFlightSlot ==
    \A p \in Calls :
        Flushing(p)
        => /\ ~slots[result_slot].fired
           /\ output[p] # <<>>
           /\ \A q \in Ids(output[p]) : rx[q] = result_slot

C23_SlotStep ==
    \A p \in Calls :
        /\ (~Flushing(p) /\ Flushing(p)') => UNCHANGED <<result_slot, slots>>
        /\ (Flushing(p) /\ Flushing(p)') => UNCHANGED <<result_slot, slots>>
        /\ (Flushing(p) /\ ~Flushing(p)')
           => /\ result_slot' # result_slot
              /\ result_slot' \notin DOMAIN slots
              /\ ~slots'[result_slot'].fired
              /\ slots'[result_slot].fired
              /\ \A q \in Ids(output[p]) : rx'[q] = result_slot

C23_SlotTakenAfterRpc == []C23_InFlightSlot /\ [][C23_SlotStep]_vars

\* The RPC of a batch of two is in flight: both callers hold receivers of
\* the slot that is still the current one.
C23_Witness ==
    \E p \in Calls :
        /\ Flushing(p)
        /\ Len(output[p]) = 2
        /\ \A q \in Ids(output[p]) : rx[q] = result_slot /\ q # p
        /\ ~slots[result_slot].fired

\* C24: exactly-once dispatch.  A record admitted by try_push is either
\* still pending and was carried by no client.produce call, or it is no
\* longer pending and was carried by exactly one call, in which it occurs
\* once; a call that has returned with an admitted record is in the second
\* case.  A caller whose linger expired and who finds its slot fired when it
\* has the lock returns the slot's result in that step, without a
\* client.produce call and without touching the aggregator.
C24_OneCarrier ==
    \A p \in Calls :
        Admitted(p)
        => /\ \/ /\ p \in Ids(aggregator)
                 /\ Carriers(p) = {}
              \/ /\ p \notin Ids(aggregator)
                 /\ Cardinality(Carriers(p)) = 1
                 /\ \A n \in Carriers(p) :
                       Cardinality({i \in DOMAIN rpcs[n].records :
                                      rpcs[n].records[i].id = p}) = 1
           /\ Cardinality({i \in DOMAIN aggregator : aggregator[i].id = p}) <= 1
           /\ Returned(p) => p \notin Ids(aggregator)

C24_FiredSlotStep ==
    \A p \in Calls :
        ( /\ pc[p] = "lock2"
          /\ pc'[p] # "lock2"
          /\ slots[rx[p]].fired )
        => /\ pc'[p] = "done"
           /\ result'[p] = Extract(slots[rx[p]], tag[p])
           /\ lock' = 0
           /\ UNCHANGED <<rpcs, aggregator, result_slot, slots, output, batch_sizes>>

C24_ExactlyOnceDispatch == []C24_OneCarrier /\ [][C24_FiredSlotStep]_vars

\* Two callers of one batch saw their lingers expire: the first flushed the
\* batch and returned, the second is about to take the lock and will find
\* its slot fired.
C24_Witness ==
    \E p, q \in Calls :
        /\ p # q
        /\ Returned(p) /\ result[p].kind = "Ok"
        /\ pc[q] = "lock2"
        /\ rx[q] = rx[p]
        /\ slots[rx[q]].fired
        /\ Len(rpcs) = 1
        /\ rpcs[1].by = p /\ rpcs[1].trigger = "linger"
        /\ Ids(rpcs[1].records) = {p, q}

\* C25: the "just flushed" assertion.  Without dropped futures no call
\* panics.  Whenever the lock is free and a caller that lingers, or whose
\* linger has expired, holds an unfired slot, that slot is the current one
\* and the caller's record is pending; so the flush such a caller runs
\* hands a non-empty list with its own record to client.produce, and when
\* that flush returns the caller's captured slot is fired and the caller
\* returns the value extracted from it.
C25_RecordStillPending ==
    /\ \A p \in Calls : pc[p] # "panicked" /\ result[p].kind # "Panic"
    /\ \A p \in Calls :
          ( /\ lock = 0
            /\ pc[p] \in {"select", "lock2"}
            /\ ~slots[rx[p]].fired )
          => /\ rx[p] = result_slot
             /\ p \in Ids(aggregator)

C25_LingerFlushStep ==
    \A p \in Calls :
        /\ ( /\ pc[p] = "lock2"
             /\ pc'[p] # "lock2"
             /\ ~slots[rx[p]].fired )
           => /\ pc'[p] = "flush2"
              /\ p \in Ids(output'[p])
              /\ LastRpc(rpcs').records = output'[p]
              /\ Len(rpcs') = Len(rpcs) + 1
        /\ (pc[p] = "flush2" /\ pc'[p] # "flush2")
           => /\ ~slots[rx[p]].fired
              /\ slots'[rx[p]].fired
              /\ pc'[p] = "done"
              /\ result'[p] = Extract(slots'[rx[p]], tag[p])
              /\ result'[p].kind \in {"Ok", "Client"}

C25_JustFlushed == []C25_RecordStillPending /\ [][C25_LingerFlushStep]_vars

\* After a capacity flush, a caller of the second batch flushed it when its
\* linger expired and returned from its own flush with the second batch's
\* offset.
C25_Witness ==
    \E p \in Calls :
        /\ Returned(p)
        /\ Len(rpcs) = 2
        /\ rpcs[1].trigger = "capacity"
        /\ rpcs[2].trigger = "linger" /\ rpcs[2].by = p
        /\ p \in Ids(rpcs[2].records)
        /\ result[p] = Extract(slots[rx[p]], tag[p])
        /\ rx[p] = 2

\* C26: zero-record flush with a waiting caller.  When a caller whose
\* record was admitted re-takes the lock after its linger with its slot
\* unfired, and flushing the aggregator yields no record, the flush makes no
\* client.produce call and fires no slot, and the caller is left waiting: the
\* produce call neither returns nor aborts in that step.
C26_EmptyFlushStep ==
    \A p \in Calls :
        ( /\ pc[p] = "lock2"
          /\ pc'[p] \notin {"lock2", "dropped"}
          /\ ~slots[rx[p]].fired
          /\ AggFlush(aggregator).output = <<>> )
        => /\ UNCHANGED <<rpcs, slots, result_slot>>
           /\ pc'[p] \notin {"panicked", "done"}
           /\ result'[p] = NoResult

C26_EmptyFlushLeavesWaiting == [][C26_EmptyFlushStep]_vars

\* The capacity flush that took the first call's record was dropped with
\* its client.produce in flight; the first call's linger then expired, its
\* flush found nothing pending and returned without firing, and the call
\* failed the "just flushed" expectation.
C26_Witness ==
    \E p \in Calls :
        /\ pc[p] = "panicked"
        /\ result[p] = NoResult
        /\ ~slots[rx[p]].fired
        /\ Carriers(p) # {}
        /\ \A n \in Carriers(p) :
              rpcs[n].state = "cancelled" /\ rpcs[n].trigger = "capacity"

\* C27: the controller cache mutex and the RPC.  The mutex is held by a
\* task only while that task is inside get(), in its metadata lookup or its
\* connect; a task whose create-topics request is in flight does not hold
\* it.  A step in which a request is sent or returns leaves the mutex to
\* whoever had it, and an invalidate takes the free mutex, clears the cache
\* and leaves the mutex free, whatever the other tasks are waiting for.
C27_HeldOnlyInGet ==
    /\ cache_lock \in Tasks \cup {0}
    /\ \A t \in Tasks :
          /\ cache_lock = t => task[t].step \in {"metadata", "connect"}
          /\ task[t].step = "request" => cache_lock # t /\ task[t].broker # 0

C27_RpcStep ==
    \A t \in Tasks :
        /\ (task[t].step = "request" /\ task'[t].step # "request")
           => cache_lock' = cache_lock
        /\ Invalidates(t)
           => /\ cache_lock = 0 /\ cache_lock' = 0
              /\ current_broker' = 0
              /\ \A u \in Tasks \ {t} : task'[u] = task[u]

C27_LockNotHeldAcrossRpc == []C27_HeldOnlyInGet /\ [][C27_RpcStep]_vars

\* Both create_topic calls have their request in flight on the connection
\* to broker 1, which the first call cached and the second call found in
\* the cache, and nobody holds the mutex.
C27_BothInFlight ==
    /\ \A t \in Tasks : task[t].step = "request" /\ task[t].broker = 1
    /\ task[1].lookups = 1 /\ task[2].lookups = 0
    /\ cache_lock = 0

\* The first call's request failed and its invalidate has cleared the
\* cache, while the request of the second call, sent on the connection it
\* found in the cache, is still outstanding.
C27_Witness ==
    /\ task[1].step = "backoff" /\ task[1].invalidated = 1
    /\ task[2].step = "request" /\ task[2].broker = 1
    /\ task[2].tries = 1 /\ task[2].lookups = 0
    /\ current_broker = 0
    /\ cache_lock = 0

\* C28: too-large input while records are pending.  A produce call whose
\* input exceeds the capacity on its own, arriving while admitted records
\* are pending, hands all pending records to one client.produce call and
\* leaves the aggregator empty; when that call returns, the slot the
\* pending records' callers hold is fired with its result, each of them
\* extracts its own result from it, the aggregator is still empty and the
\* oversized call returns Error::TooLarge.  Only calls with such an input
\* return Error::TooLarge, and such a call is never admitted.
Oversized(rec) == rec.size > Capacity

C28_OnlyOversizedFails ==
    \A p \in Calls :
        /\ result[p] = TooLarge => Returned(p) /\ Oversized(data[p])
        /\ (pc[p] \notin {"idle", "lock1"} /\ Oversized(data[p]))
           => /\ ~Admitted(p)
              /\ p \notin Ids(aggregator)
              /\ Carriers(p) = {}
              /\ pc[p] = "flush1" => aggregator = <<>>
              /\ Returned(p) => result[p] = TooLarge

C28_TooLargeStep ==
    \A p \in Calls :
        /\ ( /\ pc[p] \in {"idle", "lock1"}
             /\ pc'[p] \notin {"idle", "lock1"}
             /\ Oversized(data'[p])
             /\ aggregator # <<>> )
           => /\ pc'[p] = "flush1"
              /\ rpcs' = Append(rpcs, LastRpc(rpcs'))
              /\ LastRpc(rpcs').records = aggregator
              /\ LastRpc(rpcs').by = p
              /\ aggregator' = <<>>
        /\ ( /\ pc[p] = "flush1"
             /\ pc'[p] # "flush1"
             /\ Oversized(data[p]) )
           => /\ Len(rpcs') = Len(rpcs)
              /\ aggregator' = <<>>
              /\ result'[p] = TooLarge
              /\ slots'[result_slot].fired
              /\ \A q \in Ids(output[p]) :
                    /\ q # p
                    /\ rx[q] = result_slot
                    /\ Extract(slots'[rx[q]], tag[q]).kind \in {"Ok", "Client"}
                    /\ pc[q] \in {"select", "lock2"}

C28_TooLargeWhilePending == []C28_OnlyOversizedFails /\ [][C28_TooLargeStep]_vars

\* Two records were pending when the third call came with an oversized
\* input: one client.produce call carried both, their callers returned
\* their offsets, the third call returned TooLarge and nothing is pending.
C28_Witness ==
    /\ NumCalls >= 3
    /\ result[3] = TooLarge
    /\ Len(rpcs) = 1
    /\ rpcs[1].by = 3 /\ rpcs[1].trigger = "capacity"
    /\ Ids(rpcs[1].records) = {1, 2}
    /\ result[1] = OkResult(0) /\ result[2] = OkResult(1)
    /\ aggregator = <<>>

\* C29: cancellation isolation.  Whatever produce futures are dropped, and
\* wherever, no call that was not dropped fails the "just flushed"
\* expectation, and a call that was not dropped and returns a result taken
\* from its slot returns the result of a client.produce call that carried
\* its own record.
C29_CancellationIsolation ==
    \A p \in Calls :
        /\ pc[p] # "panicked"
        /\ (Returned(p) /\ result[p].kind \in {"Ok", "Client", "Panic"})
           => /\ slots[rx[p]].fired
              /\ slots[rx[p]].gen \in Carriers(p)
              /\ result[p].kind # "Panic"

\* A capacity flush took the first call's record and was dropped with its
\* client.produce in flight, leaving the slot in place and unfired; a later
\* call was admitted on the same slot and its batch fired it: the first
\* call, never dropped, returned an offset of a batch that did not carry
\* its record.
C29_Witness ==
    \E p, q \in Calls :
        /\ pc[q] = "dropped"
        /\ Returned(p) /\ result[p].kind = "Ok"
        /\ Carriers(p) # {}
        /\ \A n \in Carriers(p) : rpcs[n].by = q /\ rpcs[n].state = "cancelled"
        /\ slots[rx[p]].gen \notin Carriers(p)

\* C30: no stale invalidation of the controller cache.  When a call
\* invalidates the cache because of a failure of its request on the
\* connection to broker X, and the cache holds by then a connection to
\* another broker Y, which the other call has cached in the meantime, the
\* invalidate leaves that connection in the cache.
C30_InvalidateStep ==
    \A t \in Tasks :
        ( /\ Invalidates(t)
          /\ task[t].failure.kind \in {"Request", "ServerError"}
          /\ task[t].attempts # <<>>
          /\ Cached(current_broker)
          /\ current_broker # task[t].attempts[Len(task[t].attempts)].to )
        => current_broker' = current_broker

C30_NoStaleInvalidation == [][C30_InvalidateStep]_vars

\* Both calls sent their request on the connection to broker 1 and both
\* requests failed.  One call invalidated, looked the new controller up,
\* cached the connection to broker 2 and sent its request on it; then the
\* other call's invalidate, for the NotController it got from broker 1,
\* emptied the cache.
C30_Witness ==
    \E t, u \in Tasks :
        /\ t # u
        /\ task[t].step = "request" /\ task[t].broker = 2
        /\ task[t].invalidated = 1 /\ task[t].lookups + task[u].lookups = 2
        /\ task[u].step = "backoff" /\ task[u].invalidated = 1
        /\ Len(task[u].attempts) = 1
        /\ task[u].attempts[1] = [to |-> 1, got |-> "NotController"]
        /\ ~Cached(current_broker)
====
